---- MODULE Spec2Model ----
(***************************************************************************)
(* A model of steam_scanner.py: SteamGameScanner.generate_markdown_report  *)
(* with its two fetches (get_owned_games, get_player_summary), the retry   *)
(* and backoff loops, the report it builds and the file it writes.         *)
(*                                                                         *)
(* The program is single-threaded.  A step of the model runs the code from *)
(* one blocking call (an HTTP request, a time.sleep, the file write) to    *)
(* the next one.  `log` records the I/O events in the order they happen.   *)
(***************************************************************************)
EXTENDS Integers, Sequences, FiniteSets

VARIABLES
    pc,                \* position in generate_markdown_report and its callees
    attempt,           \* loop variable of the running fetch (3 = range exhausted)
    wait_time,         \* seconds of the time.sleep in progress (0 = none)
    games,             \* value of `games` in generate_markdown_report
    player_info,       \* value of `player_info` in generate_markdown_report
    markdown_content,  \* the list of report lines
    output,            \* the output file as the run leaves it
    response,          \* what the latest requests.get and its body were
    exc,               \* the exception that left generate_markdown_report
    clock,             \* seconds spent in time.sleep so far
    log,               \* the I/O events so far, oldest first
    mth_minutes,       \* argument of a call of minutes_to_hours on its own
    mth_label          \* what that call returned

vars == <<pc, attempt, wait_time, games, player_info, markdown_content,
          output, response, exc, clock, log, mth_minutes, mth_label>>

----------------------------------------------------------------------------
(* Bounds of the model *)

\* longest game list a response carries
MaxGames == 2

\* playtime_forever values a game record carries (minutes)
Playtimes == {0, 45, 120}

\* greatest argument of a call of minutes_to_hours on its own
MaxMinutes == 130

----------------------------------------------------------------------------
(* Program constants *)

\* a loop that runs once more than range(3)
MaxAttempts_OneMore == 3 + 1

\* for attempt in range(3)
MaxAttempts == 3

\* 60 * (attempt + 1) on HTTP 429
RateLimitUnit == 60

\* 30 * (attempt + 1) on a request error
BackoffUnit == 30

\* time.sleep(2) before the 2nd and 3rd player-summary request
PauseSeconds == 2

\* time.sleep(5) between the two fetches
InterEndpointSeconds == 5

\* games[:10]
TopN == 10

----------------------------------------------------------------------------
(* Python values *)

\* None, a list and a dict are told apart by `kind`
None == [kind |-> "None", val |-> <<>>]

\* the list with the elements of the sequence s
PyList(s) == [kind |-> "list", val |-> s]

\* the dict with the keys and values of the function d
PyDict(d) == [kind |-> "dict", val |-> d]

\* a variable that was not assigned yet
Unset == [kind |-> "unset", val |-> <<>>]

\* a test for None in place of the truthiness test
Truthy_NotNone(v) == v.kind \in {"list", "dict"}

\* Python truthiness of None, a list or a dict: `if not games`, `if player_info`
Truthy(v) ==
    /\ v.kind \in {"list", "dict"}
    /\ DOMAIN v.val # {}

\* dict.get(key, default)
Get(d, key, default) == IF key \in DOMAIN d THEN d[key] ELSE default

----------------------------------------------------------------------------
(* What the outside world can answer *)

\* one game record of response.games: a dict with appid, name and
\* playtime_forever, or a bare dict that has only its appid
GameDicts(i) ==
    {[appid |-> i, name |-> <<"game", i>>, playtime_forever |-> p] : p \in Playtimes}
        \cup {[appid |-> i]}

\* the lists of game records response.games can be, the empty list
\* included; the record at position i has appid i
RECURSIVE GameListsOfLen(_)
GameListsOfLen(n) ==
    IF n = 0 THEN {<<>>}
    ELSE {Append(s, g) : s \in GameListsOfLen(n - 1), g \in GameDicts(n)}

\* libraries with more games than the ranking holds: TopN + 1 records, all
\* of playtime `most` but the one at position `odd`, which has `one`
LongGameList(odd, one, most) ==
    [i \in 1..(TopN + 1) |->
        [appid |-> i, name |-> <<"game", i>>,
         playtime_forever |-> IF i = odd THEN one ELSE most]]

\* a library whose least played game was fetched first, one whose only
\* unplayed game was fetched first and one whose only played game was
\* fetched last
LongGameLists ==
    {LongGameList(1, 45, 120), LongGameList(1, 0, 120), LongGameList(TopN + 1, 120, 0)}

\* every list of at most MaxGames records, and the long ones
GameLists == UNION {GameListsOfLen(n) : n \in 0..MaxGames} \cup LongGameLists

\* the values response.players[0] can be: a summary with personaname, one
\* without it, and the empty object
PlayerDicts ==
    {[personaname |-> "persona", steamid |-> "id"],
     [steamid |-> "id"],
     [k \in {} |-> "none"]}

\* the outcomes of one requests.get(...) and of reading its body:
\*   ok             status 200, a JSON object holding the expected nested field
\*   rate_limited   status 429
\*   net_error      requests.get raises (timeout, connection error)
\*   http_error     another 4xx/5xx status: raise_for_status raises HTTPError
\*   missing_field  status 200, a JSON object without the expected nested field
\*   bad_shape      status 200, JSON on which `in`, len or [] raise (a non-object
\*                  body or a non-object 'response')
\*   not_json       status 200, response.json() raises
Outcomes ==
    {"ok", "rate_limited", "net_error", "http_error", "missing_field",
     "bad_shape", "not_json"}

\* the results of `with open(output_file, 'w') as f: f.write(...)`
WriteResults == {"ok", "open_fails", "write_fails"}

----------------------------------------------------------------------------
(* The event log *)

\* one I/O event: `ev` is "print", "get", "sleep" or "open"; `fn` the function
\* it happens in; `at` the value of `attempt` there; `n` the seconds of a
\* sleep; `tag` the message printed, the branch the request's answer takes,
\* the reason for the sleep or the result of the write
Ev(ev, fn, at, n, tag) == [ev |-> ev, fn |-> fn, at |-> at, n |-> n, tag |-> tag]

\* print(...) of the message named tag
Printed(fn, at, tag) == Ev("print", fn, at, 0, tag)

\* requests.get(url, params=params, timeout=30) and the branch its answer
\* takes: "ok", "rate_limited", "missing_field", "request_exception" (the
\* except clause) or "uncaught_exception"
HttpGet(fn, at, branch) == Ev("get", fn, at, 0, branch)

\* time.sleep(n), logged when it ends
Slept(fn, at, n, why) == Ev("sleep", fn, at, n, why)

----------------------------------------------------------------------------
(* The initial state: generate_markdown_report was called and has not run *)

Init ==
    /\ pc = "gmr_start"
    /\ attempt = 0
    /\ wait_time = 0
    /\ games = Unset
    /\ player_info = Unset
    /\ markdown_content = <<>>
    /\ output = [state |-> "untouched", content |-> <<>>]
    /\ response = "none"
    /\ exc = "none"
    /\ clock = 0
    /\ log = <<>>
    /\ mth_minutes = Unset
    /\ mth_label = Unset

\* lines 115-120: the banner, then the call of get_owned_games
Start ==
    /\ pc = "gmr_start"
    /\ pc' = "og_loop"
    /\ attempt' = 0
    /\ log' = Append(log, Printed("report", 0, "banner"))
    /\ UNCHANGED <<mth_minutes, mth_label, wait_time, games, player_info, markdown_content, output, response, exc, clock>>

----------------------------------------------------------------------------
(* get_owned_games *)

\* a wait counted from attempt 1: 60 * (attempt + 2)
RateLimitWait_OneLater(a) == RateLimitUnit * (a + 2)

\* line 30: 60 * (attempt + 1)
RateLimitWait(a) == RateLimitUnit * (a + 1)

\* a backoff that does not grow with the attempt
BackoffWait_Flat(a) == BackoffUnit

\* 30 * (attempt + 1)
BackoffWait(a) == BackoffUnit * (a + 1)

\* `if attempt < 2`: not the last attempt
NotLastAttempt(a) == a < 2

\* the exception classes `except requests.exceptions.RequestException` catches:
\* what requests.get and raise_for_status raise, and the JSONDecodeError of a
\* requests release that derives it from RequestException
IsRequestException(outcome, json_error_is_request_exception) ==
    \/ outcome \in {"net_error", "http_error"}
    \/ outcome = "not_json" /\ json_error_is_request_exception

\* the exception that leaves the fetch: the ValueError of response.json() in a
\* requests release that raises it bare, the TypeError of a body of the wrong shape
Propagates(outcome, json_error_is_request_exception) ==
    \/ outcome = "bad_shape"
    \/ outcome = "not_json" /\ ~json_error_is_request_exception

\* lines 26-33: the request is answered 429
OwnedRateLimited ==
    /\ pc = "og_loop"
    /\ attempt < MaxAttempts
    /\ pc' = "og_sleep_429"
    /\ wait_time' = RateLimitWait(attempt)
    /\ log' = log \o <<Printed("owned", attempt, "attempt"),
                       HttpGet("owned", attempt, "rate_limited"),
                       Printed("owned", attempt, "rate_limit_wait")>>
    /\ response' = "rate_limited"
    /\ UNCHANGED <<mth_minutes, mth_label, attempt, games, player_info, markdown_content, output, exc, clock>>

\* lines 26-40: the body has response.games, which is returned
OwnedSuccess ==
    /\ pc = "og_loop"
    /\ attempt < MaxAttempts
    /\ \E body \in GameLists :
        /\ games' = PyList(body)
        /\ log' = log \o <<Printed("owned", attempt, "attempt"),
                           HttpGet("owned", attempt, "ok"),
                           Printed("owned", attempt, "success")>>
    /\ pc' = "gmr_check"
    /\ response' = "ok"
    /\ UNCHANGED <<mth_minutes, mth_label, attempt, wait_time, player_info, markdown_content, output, exc, clock>>

\* a body without the expected field handled like a failed request: retried
OwnedMissingField_Retried ==
    /\ pc = "og_loop"
    /\ attempt < MaxAttempts
    /\ pc' = "og_sleep_err"
    /\ wait_time' = BackoffWait(attempt)
    /\ log' = log \o <<Printed("owned", attempt, "attempt"),
                       HttpGet("owned", attempt, "missing_field"),
                       Printed("owned", attempt, "backoff_wait")>>
    /\ response' = "missing_field"
    /\ UNCHANGED <<mth_minutes, mth_label, attempt, games, player_info, markdown_content, output, exc, clock>>

\* lines 26-43: the body lacks 'response' or response lacks 'games': return []
OwnedMissingField ==
    /\ pc = "og_loop"
    /\ attempt < MaxAttempts
    /\ games' = PyList(<<>>)
    /\ log' = log \o <<Printed("owned", attempt, "attempt"),
                       HttpGet("owned", attempt, "missing_field"),
                       Printed("owned", attempt, "no_data")>>
    /\ pc' = "gmr_check"
    /\ response' = "missing_field"
    /\ UNCHANGED <<mth_minutes, mth_label, attempt, wait_time, player_info, markdown_content, output, exc, clock>>

\* the except block with an HTTP error status treated as final: the fetch
\* returns the empty list at once, whatever the attempt
OwnedRequestError_HttpFatal ==
    /\ pc = "og_loop"
    /\ attempt < MaxAttempts
    /\ \E o \in Outcomes, j \in BOOLEAN :
        /\ IsRequestException(o, j)
        /\ response' = o
        /\ IF NotLastAttempt(attempt) /\ o # "http_error"
           THEN /\ pc' = "og_sleep_err"
                /\ wait_time' = BackoffWait(attempt)
                /\ games' = games
                /\ log' = log \o <<Printed("owned", attempt, "attempt"),
                                   HttpGet("owned", attempt, "request_exception"),
                                   Printed("owned", attempt, "request_failed"),
                                   Printed("owned", attempt, "backoff_wait")>>
           ELSE /\ pc' = "gmr_check"
                /\ wait_time' = wait_time
                /\ games' = PyList(<<>>)
                /\ log' = log \o <<Printed("owned", attempt, "attempt"),
                                   HttpGet("owned", attempt, "request_exception"),
                                   Printed("owned", attempt, "request_failed"),
                                   Printed("owned", attempt, "all_failed")>>
    /\ UNCHANGED <<mth_minutes, mth_label, attempt, player_info, markdown_content, output, exc, clock>>

\* lines 45-53: a RequestException: back off, or return [] on the last attempt
OwnedRequestError ==
    /\ pc = "og_loop"
    /\ attempt < MaxAttempts
    /\ \E o \in Outcomes, j \in BOOLEAN :
        /\ IsRequestException(o, j)
        /\ response' = o
        /\ IF NotLastAttempt(attempt)
           THEN /\ pc' = "og_sleep_err"
                /\ wait_time' = BackoffWait(attempt)
                /\ games' = games
                /\ log' = log \o <<Printed("owned", attempt, "attempt"),
                                   HttpGet("owned", attempt, "request_exception"),
                                   Printed("owned", attempt, "request_failed"),
                                   Printed("owned", attempt, "backoff_wait")>>
           ELSE /\ pc' = "gmr_check"
                /\ wait_time' = wait_time
                /\ games' = PyList(<<>>)
                /\ log' = log \o <<Printed("owned", attempt, "attempt"),
                                   HttpGet("owned", attempt, "request_exception"),
                                   Printed("owned", attempt, "request_failed"),
                                   Printed("owned", attempt, "all_failed")>>
    /\ UNCHANGED <<mth_minutes, mth_label, attempt, player_info, markdown_content, output, exc, clock>>

\* lines 36-40: an exception no except clause catches leaves get_owned_games
\* and, through line 120, generate_markdown_report
OwnedRaises ==
    /\ pc = "og_loop"
    /\ attempt < MaxAttempts
    /\ \E o \in Outcomes, j \in BOOLEAN :
        /\ Propagates(o, j)
        /\ response' = o
        /\ exc' = (IF o = "bad_shape" THEN "TypeError" ELSE "ValueError")
        /\ log' = log \o <<Printed("owned", attempt, "attempt"),
                           HttpGet("owned", attempt, "uncaught_exception")>>
    /\ pc' = "gmr_raised"
    /\ UNCHANGED <<mth_minutes, mth_label, attempt, wait_time, games, player_info, markdown_content, output, clock>>

\* lines 32-33 and 50: the sleep ends and the loop takes its next value
OwnedSleep ==
    /\ pc \in {"og_sleep_429", "og_sleep_err"}
    /\ clock' = clock + wait_time
    /\ log' = Append(log, Slept("owned", attempt, wait_time,
                                IF pc = "og_sleep_429" THEN "rate_limit" ELSE "backoff"))
    /\ wait_time' = 0
    /\ attempt' = attempt + 1
    /\ pc' = "og_loop"
    /\ UNCHANGED <<mth_minutes, mth_label, games, player_info, markdown_content, output, response, exc>>

\* line 24 with range(3) used up: the function ends without a return
\* statement, so the call evaluates to None and nothing is printed
OwnedFallOff ==
    /\ pc = "og_loop"
    /\ attempt = MaxAttempts
    /\ games' = None
    /\ pc' = "gmr_check"
    /\ UNCHANGED <<mth_minutes, mth_label, attempt, wait_time, player_info, markdown_content, output, response, exc, clock, log>>

----------------------------------------------------------------------------
(* generate_markdown_report, from the return of get_owned_games to the call
   of get_player_summary *)

\* the player summary fetched right after the games, with no sleep between
CheckGames_NoDelay ==
    /\ pc = "gmr_check"
    /\ IF ~Truthy(games)
       THEN /\ pc' = "gmr_aborted"
            /\ log' = Append(log, Printed("report", 0, "diagnostic"))
       ELSE /\ pc' = "ps_loop"
            /\ log' = log
    /\ attempt' = 0
    /\ UNCHANGED <<mth_minutes, mth_label, wait_time, games, player_info, markdown_content, output, response, exc, clock>>

\* lines 122-131: `if not games` prints the guidance and returns; otherwise
\* the 5-second sleep starts
CheckGames ==
    /\ pc = "gmr_check"
    /\ IF ~Truthy(games)
       THEN /\ pc' = "gmr_aborted"
            /\ wait_time' = wait_time
            /\ log' = Append(log, Printed("report", 0, "diagnostic"))
       ELSE /\ pc' = "gmr_wait5"
            /\ wait_time' = InterEndpointSeconds
            /\ log' = Append(log, Printed("report", 0, "wait5"))
    /\ UNCHANGED <<mth_minutes, mth_label, attempt, games, player_info, markdown_content, output, response, exc, clock>>

\* lines 131-134: the sleep ends and get_player_summary is called
InterEndpointSleep ==
    /\ pc = "gmr_wait5"
    /\ clock' = clock + wait_time
    /\ log' = Append(log, Slept("report", 0, wait_time, "inter_endpoint"))
    /\ wait_time' = 0
    /\ attempt' = 0
    /\ pc' = "ps_loop"
    /\ UNCHANGED <<mth_minutes, mth_label, games, player_info, markdown_content, output, response, exc>>

----------------------------------------------------------------------------
(* get_player_summary *)

\* a pause before every request, the first one too
NeedsPause_Always(a) == a >= 0

\* line 69: `if attempt > 0`: the fixed pause precedes every request but the
\* first
NeedsPause(a) == a > 0

\* lines 64-70: the attempt is announced; from the second attempt on the
\* 2-second pause starts
PlayerAttempt ==
    /\ pc = "ps_loop"
    /\ attempt < MaxAttempts
    /\ log' = Append(log, Printed("player", attempt, "attempt"))
    /\ IF NeedsPause(attempt)
       THEN pc' = "ps_pause" /\ wait_time' = PauseSeconds
       ELSE pc' = "ps_get" /\ wait_time' = wait_time
    /\ UNCHANGED <<mth_minutes, mth_label, attempt, games, player_info, markdown_content, output, response, exc, clock>>

\* line 70: the pause ends
PlayerPause ==
    /\ pc = "ps_pause"
    /\ clock' = clock + wait_time
    /\ log' = Append(log, Slept("player", attempt, wait_time, "pause"))
    /\ wait_time' = 0
    /\ pc' = "ps_get"
    /\ UNCHANGED <<mth_minutes, mth_label, attempt, games, player_info, markdown_content, output, response, exc>>

\* lines 72-78: the request is answered 429
PlayerRateLimited ==
    /\ pc = "ps_get"
    /\ pc' = "ps_sleep_429"
    /\ wait_time' = RateLimitWait(attempt)
    /\ log' = log \o <<HttpGet("player", attempt, "rate_limited"),
                       Printed("player", attempt, "rate_limit_wait")>>
    /\ response' = "rate_limited"
    /\ UNCHANGED <<mth_minutes, mth_label, attempt, games, player_info, markdown_content, output, exc, clock>>

\* lines 72-85: response.players is non-empty and players[0] is returned
PlayerSuccess ==
    /\ pc = "ps_get"
    /\ \E first \in PlayerDicts :
        /\ player_info' = PyDict(first)
        /\ log' = log \o <<HttpGet("player", attempt, "ok"),
                           Printed("player", attempt, "success")>>
    /\ pc' = "gmr_build"
    /\ response' = "ok"
    /\ UNCHANGED <<mth_minutes, mth_label, attempt, wait_time, games, markdown_content, output, exc, clock>>

\* lines 72-88: no 'response', no 'players' or an empty players: return None
PlayerMissingField ==
    /\ pc = "ps_get"
    /\ player_info' = None
    /\ log' = log \o <<HttpGet("player", attempt, "missing_field"),
                       Printed("player", attempt, "no_player")>>
    /\ pc' = "gmr_build"
    /\ response' = "missing_field"
    /\ UNCHANGED <<mth_minutes, mth_label, attempt, wait_time, games, markdown_content, output, exc, clock>>

\* lines 90-98: a RequestException: back off, or return None on the last attempt
PlayerRequestError ==
    /\ pc = "ps_get"
    /\ \E o \in Outcomes, j \in BOOLEAN :
        /\ IsRequestException(o, j)
        /\ response' = o
        /\ IF NotLastAttempt(attempt)
           THEN /\ pc' = "ps_sleep_err"
                /\ wait_time' = BackoffWait(attempt)
                /\ player_info' = player_info
                /\ log' = log \o <<HttpGet("player", attempt, "request_exception"),
                                   Printed("player", attempt, "request_failed"),
                                   Printed("player", attempt, "backoff_wait")>>
           ELSE /\ pc' = "gmr_build"
                /\ wait_time' = wait_time
                /\ player_info' = None
                /\ log' = log \o <<HttpGet("player", attempt, "request_exception"),
                                   Printed("player", attempt, "request_failed"),
                                   Printed("player", attempt, "no_player")>>
    /\ UNCHANGED <<mth_minutes, mth_label, attempt, games, markdown_content, output, exc, clock>>

\* lines 81-85: an exception no except clause catches leaves get_player_summary
\* and, through line 134, generate_markdown_report
PlayerRaises ==
    /\ pc = "ps_get"
    /\ \E o \in Outcomes, j \in BOOLEAN :
        /\ Propagates(o, j)
        /\ response' = o
        /\ exc' = (IF o = "bad_shape" THEN "TypeError" ELSE "ValueError")
        /\ log' = Append(log, HttpGet("player", attempt, "uncaught_exception"))
    /\ pc' = "gmr_raised"
    /\ UNCHANGED <<mth_minutes, mth_label, attempt, wait_time, games, player_info, markdown_content, output, clock>>

\* lines 77-78 and 95: the sleep ends and the loop takes its next value
PlayerSleep ==
    /\ pc \in {"ps_sleep_429", "ps_sleep_err"}
    /\ clock' = clock + wait_time
    /\ log' = Append(log, Slept("player", attempt, wait_time,
                                IF pc = "ps_sleep_429" THEN "rate_limit" ELSE "backoff"))
    /\ wait_time' = 0
    /\ attempt' = attempt + 1
    /\ pc' = "ps_loop"
    /\ UNCHANGED <<mth_minutes, mth_label, games, player_info, markdown_content, output, response, exc>>

\* line 64 with range(3) used up: the function ends without a return
\* statement, so the call evaluates to None and nothing is printed
PlayerFallOff ==
    /\ pc = "ps_loop"
    /\ attempt = MaxAttempts
    /\ player_info' = None
    /\ pc' = "gmr_build"
    /\ UNCHANGED <<mth_minutes, mth_label, attempt, wait_time, games, markdown_content, output, response, exc, clock, log>>

----------------------------------------------------------------------------
(* The report *)

\* game.get('playtime_forever', 0)
Playtime(game) == Get(game, "playtime_forever", 0)

\* a Python number as the fraction num/den; is_float tells a float from an int
PyInt(n) == [num |-> n, den |-> 1, is_float |-> FALSE]

\* the float n / d, the result of a true division
PyFloat(n, d) == [num |-> n, den |-> d, is_float |-> TRUE]

\* the number of bits in the significand of a Python float
FloatBits == 53

\* 2^e modulo den, for e < FloatBits
PowerOfTwoMod(e, den) ==
    LET power[k \in 0..FloatBits] ==
            IF k = 0 THEN 1 % den ELSE (2 * power[k - 1]) % den
    IN  power[e]

\* the greatest b with 2^b * den <= num, for num >= den: the binary exponent
\* of the float num / den
RECURSIVE BinaryExponent(_, _)
BinaryExponent(num, den) ==
    IF 2 * den > num THEN 0 ELSE 1 + BinaryExponent(num, 2 * den)

\* what the division leaves behind: the float num / den is the quotient
\* rounded to FloatBits bits, and the remainder of num * 2^e by den (e the
\* shift that makes the quotient a FloatBits-bit integer) tells whether the
\* float is the exact quotient (0), below it (-1) or above it (1)
FloatError(num, den) ==
    LET e == (FloatBits - 1) - BinaryExponent(num, den)
        rem == ((num % den) * PowerOfTwoMod(e, den)) % den
    IN  IF rem = 0 THEN 0 ELSE IF 2 * rem < den THEN -1 ELSE 1

\* f"{hours:.1f}" for hours = num/den >= 1: the tenths of the float, rounded
\* to nearest.  The float differs from num/den by less than any distance to
\* a rounding boundary unless num/den lies on one; there the float's own
\* error decides, and a float that is exactly on the boundary goes to the
\* even tenth
RoundedTenths(num, den) ==
    LET q == (10 * num) \div den
        r == (10 * num) % den
    IN  IF 2 * r < den THEN q
        ELSE IF 2 * r > den THEN q + 1
        ELSE IF FloatError(num, den) = 0
             THEN (IF q % 2 = 0 THEN q ELSE q + 1)
        ELSE IF FloatError(num, den) < 0 THEN q
        ELSE q + 1

\* minutes_to_hours without the test for 0 at its head: 0 falls into the
\* branch of less than one hour
minutes_to_hours_NoZeroCase(minutes) ==
    LET num == minutes.num
        den == 60 * minutes.den
    IN  IF num < den
        THEN [unit |-> "minutes",
              form |-> IF minutes.is_float THEN "float" ELSE "int",
              shown |-> <<minutes.num, minutes.den>>]
        ELSE IF num % den = 0
             THEN [unit |-> "hours", form |-> "int", shown |-> <<num \div den>>]
        ELSE [unit |-> "hours", form |-> "one_decimal",
              shown |-> <<RoundedTenths(num, den) \div 10, RoundedTenths(num, den) % 10>>]

\* lines 100-111: minutes_to_hours, for minutes >= 0; the label is the unit
\* and how the number before it is written
minutes_to_hours(minutes) ==
    LET num == minutes.num
        den == 60 * minutes.den
    IN  IF num = 0 THEN [unit |-> "hours", form |-> "int", shown |-> <<0>>]
        ELSE IF num < den
             THEN [unit |-> "minutes",
                   form |-> IF minutes.is_float THEN "float" ELSE "int",
                   shown |-> <<minutes.num, minutes.den>>]
        ELSE IF num % den = 0
             THEN [unit |-> "hours", form |-> "int", shown |-> <<num \div den>>]
        ELSE [unit |-> "hours", form |-> "one_decimal",
              shown |-> <<RoundedTenths(num, den) \div 10, RoundedTenths(num, den) % 10>>]

\* the place an ascending sort that is then reversed gives the record at
\* position i of s: records of equal playtime end up in reverse order
PlaceDesc_TiesReversed(s, i) ==
    1 + Cardinality({j \in 1..Len(s) :
                        \/ Playtime(s[j]) > Playtime(s[i])
                        \/ Playtime(s[j]) = Playtime(s[i]) /\ j > i})

\* the place list.sort(key=playtime, reverse=True) gives the record at
\* position i of s: behind every record with a greater playtime and behind
\* the records of equal playtime that come before it in s (the sort is stable)
PlaceDesc(s, i) ==
    1 + Cardinality({j \in 1..Len(s) :
                        \/ Playtime(s[j]) > Playtime(s[i])
                        \/ Playtime(s[j]) = Playtime(s[i]) /\ j < i})

\* line 137: games.sort(key=lambda x: x.get('playtime_forever', 0), reverse=True)
SortDesc(s) ==
    [k \in 1..Len(s) |-> s[CHOOSE i \in 1..Len(s) : PlaceDesc(s, i) = k]]

\* the sum of the playtimes of the first n records of s
RECURSIVE PlaytimeSum(_, _)
PlaytimeSum(s, n) ==
    IF n = 0 THEN 0 ELSE PlaytimeSum(s, n - 1) + Playtime(s[n])

\* line 154: sum(game.get('playtime_forever', 0) for game in games)
total_minutes(s) == PlaytimeSum(s, Len(s))

\* line 159: the condition of the first list comprehension
IsPlayed(game) == Playtime(game) > 0

\* line 159: [game for game in games if game.get('playtime_forever', 0) > 0]
played_games(s) == SelectSeq(s, IsPlayed)

\* line 160: the condition of the second list comprehension
\* the test without the default of get: a record that lacks the field is
\* not unplayed
IsUnplayed_NoDefault(game) ==
    "playtime_forever" \in DOMAIN game /\ game.playtime_forever = 0

IsUnplayed(game) == Playtime(game) = 0

\* line 160: [game for game in games if game.get('playtime_forever', 0) == 0]
unplayed_games(s) == SelectSeq(s, IsUnplayed)

\* the ranking taken from the whole list, without the slice
top_games_All(s) == s

\* line 174: games[:10]
top_games(s) == SubSeq(s, 1, IF Len(s) < TopN THEN Len(s) ELSE TopN)

\* the identity lines written whether or not there is player info
ShowsIdentity_Always(info) == TRUE

\* line 147: `if player_info`
ShowsIdentity(info) == Truthy(info)

\* lines 143-151: the header
HeaderLines(s, info) ==
    <<<<"title">>, <<"blank">>, <<"generated_at">>>>
    \o (IF ShowsIdentity(info)
        THEN <<<<"player_name", Get(info.val, "personaname", "Unknown")>>,
               <<"steam_id">>>>
        ELSE <<>>)
    \o <<<<"game_count", Len(s)>>,
         <<"total_time", minutes_to_hours(PyInt(total_minutes(s)))>>,
         <<"blank">>>>

\* the statistics with the average taken over all the games
StatLines_AverageOverAll(s) ==
    <<<<"stats_heading">>, <<"blank">>,
      <<"played_count", Len(played_games(s))>>,
      <<"unplayed_count", Len(unplayed_games(s))>>>>
    \o (IF Len(played_games(s)) > 0
        THEN <<<<"average", minutes_to_hours(PyFloat(total_minutes(s), Len(s)))>>>>
        ELSE <<>>)
    \o <<<<"blank">>>>

\* lines 162-171: the statistics, the average only when a game was played
StatLines(s) ==
    <<<<"stats_heading">>, <<"blank">>,
      <<"played_count", Len(played_games(s))>>,
      <<"unplayed_count", Len(unplayed_games(s))>>>>
    \o (IF Len(played_games(s)) > 0
        THEN <<<<"average",
                 minutes_to_hours(PyFloat(total_minutes(s), Len(played_games(s))))>>>>
        ELSE <<>>)
    \o <<<<"blank">>>>

\* lines 179-184: one ranking entry for each of the top games that was played,
\* numbered by its position among the top games
RECURSIVE RankEntries(_, _)
RankEntries(top, i) ==
    IF i > Len(top) THEN <<>>
    ELSE (IF Playtime(top[i]) > 0
          THEN <<<<"rank", i, Get(top[i], "name", "Unknown Game"),
                   minutes_to_hours(PyInt(Playtime(top[i])))>>>>
          ELSE <<>>)
         \o RankEntries(top, i + 1)

\* lines 174-186: the ranking, only when the first game was played
RankingLines(s) ==
    IF Len(top_games(s)) > 0 /\ Playtime(top_games(s)[1]) > 0
    THEN <<<<"ranking_heading">>, <<"blank">>>>
         \o RankEntries(top_games(s), 1) \o <<<<"blank">>>>
    ELSE <<>>

\* lines 199-203
PlayedRows(s) ==
    [i \in 1..Len(s) |->
        <<"played_row", Get(s[i], "name", "Unknown Game"),
          minutes_to_hours(PyInt(Playtime(s[i]))), Get(s[i], "appid", "N/A")>>]

\* lines 214-217
UnplayedRows(s) ==
    [i \in 1..Len(s) |->
        <<"unplayed_row", Get(s[i], "name", "Unknown Game"), Get(s[i], "appid", "N/A")>>]

\* lines 189-217: the two tables, each only when it has rows
TableLines(s) ==
    <<<<"list_heading">>, <<"blank">>>>
    \o (IF Len(played_games(s)) > 0
        THEN <<<<"played_heading">>, <<"blank">>, <<"played_columns">>, <<"played_rule">>>>
             \o PlayedRows(played_games(s)) \o <<<<"blank">>>>
        ELSE <<>>)
    \o (IF Len(unplayed_games(s)) > 0
        THEN <<<<"unplayed_heading">>, <<"blank">>, <<"unplayed_columns">>,
               <<"unplayed_rule">>>>
             \o UnplayedRows(unplayed_games(s))
        ELSE <<>>)

\* lines 140-217: markdown_content for the sorted list s and the player info
ReportLines(s, info) ==
    HeaderLines(s, info) \o StatLines(s) \o RankingLines(s) \o TableLines(s)

\* lines 136-217: the list is sorted in place and the report is built from
\* the sorted list
BuildReport ==
    /\ pc = "gmr_build"
    /\ games' = PyList(SortDesc(games.val))
    /\ markdown_content' = ReportLines(games'.val, player_info)
    /\ pc' = "gmr_write"
    /\ UNCHANGED <<mth_minutes, mth_label, attempt, wait_time, player_info, output, response, exc, clock, log>>

\* the write with the success messages outside the try block: they are
\* printed whether or not the write failed
WriteFile_SuccessAlways ==
    /\ pc = "gmr_write"
    /\ \E result \in WriteResults :
        /\ output' = (CASE result = "ok" ->
                              [state |-> "written", content |-> markdown_content]
                        [] result = "open_fails" -> output
                        [] OTHER -> [state |-> "truncated", content |-> <<>>])
        /\ log' = log \o (IF result = "ok"
                          THEN <<Ev("open", "report", 0, 0, result),
                                 Printed("report", 0, "report_done")>>
                          ELSE <<Ev("open", "report", 0, 0, result),
                                 Printed("report", 0, "write_error"),
                                 Printed("report", 0, "report_done")>>)
    /\ pc' = "gmr_done"
    /\ UNCHANGED <<mth_minutes, mth_label, attempt, wait_time, games, player_info, markdown_content, response, exc, clock>>

\* lines 220-229: the file is opened and written once; a failure of open or
\* of write is caught and reported, and a failed write leaves the file cut off
WriteFile ==
    /\ pc = "gmr_write"
    /\ \E result \in WriteResults :
        /\ output' = (CASE result = "ok" ->
                              [state |-> "written", content |-> markdown_content]
                        [] result = "open_fails" -> output
                        [] OTHER -> [state |-> "truncated", content |-> <<>>])
        /\ log' = log \o <<Ev("open", "report", 0, 0, result),
                           Printed("report", 0,
                                   IF result = "ok" THEN "report_done" ELSE "write_error")>>
    /\ pc' = "gmr_done"
    /\ UNCHANGED <<mth_minutes, mth_label, attempt, wait_time, games, player_info, markdown_content, response, exc, clock>>

----------------------------------------------------------------------------
(* The program *)

Next ==
    \/ Start
    \/ OwnedRateLimited
    \/ OwnedSuccess
    \/ OwnedMissingField
    \/ OwnedRequestError
    \/ OwnedRaises
    \/ OwnedSleep
    \/ OwnedFallOff
    \/ CheckGames
    \/ InterEndpointSleep
    \/ PlayerAttempt
    \/ PlayerPause
    \/ PlayerRateLimited
    \/ PlayerSuccess
    \/ PlayerMissingField
    \/ PlayerRequestError
    \/ PlayerRaises
    \/ PlayerSleep
    \/ PlayerFallOff
    \/ BuildReport
    \/ WriteFile

Spec == Init /\ [][Next]_vars

\* a run in which no blocking call hangs: every request returns or raises,
\* every time.sleep ends, the write returns or raises
FairSpec == Spec /\ WF_vars(Next)

----------------------------------------------------------------------------
(* minutes_to_hours called on its own *)

\* the call is about to run on an integer number of minutes
MinutesInit ==
    /\ pc = "mth_call"
    /\ mth_minutes \in {PyInt(m) : m \in 0..MaxMinutes}
    /\ mth_label = Unset
    /\ attempt = 0
    /\ wait_time = 0
    /\ games = Unset
    /\ player_info = Unset
    /\ markdown_content = <<>>
    /\ output = [state |-> "untouched", content |-> <<>>]
    /\ response = "none"
    /\ exc = "none"
    /\ clock = 0
    /\ log = <<>>

\* lines 100-111: the call returns its label
MinutesToHours ==
    /\ pc = "mth_call"
    /\ mth_label' = minutes_to_hours(mth_minutes)
    /\ pc' = "mth_return"
    /\ UNCHANGED <<mth_minutes, attempt, wait_time, games, player_info, markdown_content,
                   output, response, exc, clock, log>>

MinutesSpec == MinutesInit /\ [][MinutesToHours]_vars

\* generate_markdown_report has returned or raised
Finished == pc \in {"gmr_aborted", "gmr_done", "gmr_raised"}

----------------------------------------------------------------------------
(* Reading the log *)

\* the positions of the requests of fetch f ("owned" or "player")
GetsOf(f) == {i \in DOMAIN log : log[i].ev = "get" /\ log[i].fn = f}

\* the positions of the sleeps of f with the reason why
SleepsOf(f, why) ==
    {i \in DOMAIN log : log[i].ev = "sleep" /\ log[i].fn = f /\ log[i].tag = why}

\* the positions where the message tag of f was printed
PrintsOf(f, tag) ==
    {i \in DOMAIN log : log[i].ev = "print" /\ log[i].fn = f /\ log[i].tag = tag}

\* the positions where the output file was opened for writing
Opens == {i \in DOMAIN log : log[i].ev = "open"}

\* get_owned_games has returned a value to generate_markdown_report
OwnedReturned == games.kind # "unset"

\* get_player_summary has returned a value to generate_markdown_report
PlayerReturned == player_info.kind # "unset"

\* fetch f has returned
Returned(f) == IF f = "owned" THEN OwnedReturned ELSE PlayerReturned

\* the request at position i of the log failed: it was answered 429 or it
\* raised a RequestException
FailedGet(i) == log[i].tag \in {"rate_limited", "request_exception"}

----------------------------------------------------------------------------
(* C1: one call of get_owned_games and one call of get_player_summary each
   issue at most 3 HTTP GET requests, whatever the requests' outcomes are. *)
C1_AtMostThreeRequests ==
    /\ Cardinality(GetsOf("owned")) <= 3
    /\ Cardinality(GetsOf("player")) <= 3

\* both fetches used all three requests and the run went on to its end
C1_Witness ==
    /\ Cardinality(GetsOf("owned")) = 3
    /\ Cardinality(GetsOf("player")) = 3
    /\ pc = "gmr_done"

(* C2: when all 3 attempts of get_owned_games fail, whatever the mix of 429
   and request errors, the call returns the empty list and prints a message
   that reports the failure. *)
C2_ExhaustedReturnsEmptyAndReports ==
    (/\ OwnedReturned
     /\ Cardinality(GetsOf("owned")) = 3
     /\ \A i \in GetsOf("owned") : FailedGet(i))
    => /\ games.kind = "list"
       /\ Len(games.val) = 0
       /\ PrintsOf("owned", "all_failed") # {}

(* C3: a fetch that receives HTTP 429 on attempt a waits 60*(a+1) seconds and
   then retries: once the fetch has returned, every 429 wait in the log lasted
   60*(a+1) seconds and is followed by another request of the same fetch. *)
C3_RateLimitWaitThenRetry ==
    \A f \in {"owned", "player"} :
        Returned(f) =>
            \A i \in SleepsOf(f, "rate_limit") :
                /\ log[i].n = 60 * (log[i].at + 1)
                /\ \E j \in GetsOf(f) : j > i

\* the requests and sleeps of fetch f that the log holds after position i
After(i, f) ==
    {j \in DOMAIN log : j > i /\ log[j].fn = f /\ log[j].ev \in {"get", "sleep"}}

\* the earliest position of a non-empty set of positions
First(S) == CHOOSE j \in S : \A k \in S : j <= k

\* the empty list for get_owned_games, None for get_player_summary
EmptyResult(f) ==
    IF f = "owned" THEN games.kind = "list" /\ Len(games.val) = 0
    ELSE player_info.kind = "None"

\* fetch f is inside the sleep that follows a request error
InBackoffSleep(f) == pc = (IF f = "owned" THEN "og_sleep_err" ELSE "ps_sleep_err")

(* C4: a request of a fetch that raises a request error on attempt a < 2 is
   followed by a wait of exactly 30*(a+1) seconds and then by the request of
   attempt a+1 of the same fetch (in get_player_summary with its fixed pause
   in between); on attempt 2 it is followed by no wait and no request, and
   the fetch returns the empty list, respectively None, at once. *)
C4_ErrorBackoffThenRetryOrReturn ==
    \A f \in {"owned", "player"} :
        \A i \in GetsOf(f) :
            log[i].tag = "request_exception" =>
                LET a == log[i].at
                    later == After(i, f)
                    retries == {j \in later : log[j].ev = "get"}
                IN  IF a < 2
                    THEN /\ later = {} =>
                                /\ InBackoffSleep(f)
                                /\ attempt = a
                                /\ wait_time = 30 * (a + 1)
                         /\ later # {} =>
                                log[First(later)] = Slept(f, a, 30 * (a + 1), "backoff")
                         /\ retries # {} =>
                                /\ log[First(retries)].at = a + 1
                                /\ \A k \in later :
                                        k < First(retries) =>
                                            log[k].tag \in {"backoff", "pause"}
                         /\ (Returned(f) \/ Finished) => retries # {}
                    ELSE /\ later = {}
                         /\ Returned(f)
                         /\ EmptyResult(f)

\* get_player_summary met a request error on each of its three attempts
C4_Witness ==
    /\ pc = "gmr_done"
    /\ \A a \in 0..2 :
        \E i \in GetsOf("player") :
            log[i].at = a /\ log[i].tag = "request_exception"

(* C5: a successful response whose body lacks the expected nested field ends
   the fetch at once, on whatever attempt it comes: the fetch returns the
   empty list, respectively None, and no request and no wait of that fetch
   follows. *)
C5_MissingFieldEndsFetch ==
    \A f \in {"owned", "player"} :
        \A i \in GetsOf(f) :
            log[i].tag = "missing_field" =>
                /\ After(i, f) = {}
                /\ Returned(f)
                /\ EmptyResult(f)
                /\ ~InBackoffSleep(f)

\* the third request of get_player_summary was answered without players
C5_Witness ==
    /\ pc = "gmr_done"
    /\ \E i \in GetsOf("player") : log[i].at = 2 /\ log[i].tag = "missing_field"

\* get_player_summary is running
InPlayerFetch == pc \in {"ps_loop", "ps_pause", "ps_get", "ps_sleep_429", "ps_sleep_err"}

\* the report lines were put together
ReportBuilt == Len(markdown_content) > 0

(* C6: the events of a run of generate_markdown_report are ordered: all
   owned-games requests, then the 5-second wait, then all player-summary
   requests, then the building of the report, then the write of the file.
   No player-summary request comes before get_owned_games has returned and
   the 5 seconds have passed, and the file is not written before
   get_player_summary has returned. *)
C6_EventsInOrder ==
    LET owned == GetsOf("owned")
        player == GetsOf("player")
        waits == SleepsOf("report", "inter_endpoint")
    IN  /\ \A k \in waits :
                /\ log[k].n = 5
                /\ \A i \in owned : i < k
                /\ \A j \in player : k < j
        /\ player # {} => waits # {}
        /\ InPlayerFetch => OwnedReturned /\ waits # {}
        /\ ReportBuilt => PlayerReturned
        /\ \A w \in Opens :
                /\ \A j \in owned \cup player \cup waits : j < w
                /\ PlayerReturned
                /\ ReportBuilt
        /\ output.state = "written" => output.content = markdown_content

\* a finished run in which both fetches needed more than one request
C6_Witness ==
    /\ pc = "gmr_done"
    /\ Cardinality(GetsOf("owned")) > 1
    /\ Cardinality(GetsOf("player")) > 1
    /\ output.state = "written"

(* C7: if the owned-games fetch fails, that is returns the empty list or
   None, generate_markdown_report prints the diagnostic guidance and returns:
   it does not wait 5 seconds, issues no player-summary request and never
   opens or writes the output file. *)
C7_AbortOnFailedOwnedFetch ==
    (games.kind = "None" \/ (games.kind = "list" /\ Len(games.val) = 0)) =>
        /\ pc \in {"gmr_check", "gmr_aborted"}
        /\ pc = "gmr_aborted" => PrintsOf("report", "diagnostic") # {}
        /\ SleepsOf("report", "inter_endpoint") = {}
        /\ wait_time = 0
        /\ GetsOf("player") = {}
        /\ ~PlayerReturned
        /\ Opens = {}
        /\ ~ReportBuilt
        /\ output.state = "untouched"

\* the run has ended after get_owned_games used up its attempts
C7_Witness ==
    /\ pc = "gmr_aborted"
    /\ Cardinality(GetsOf("owned")) = 3
    /\ PrintsOf("report", "diagnostic") # {}

\* the report has a line of the kind tag
HasLine(tag) == \E k \in DOMAIN markdown_content : markdown_content[k][1] = tag

\* get_player_summary returned a summary, that is an object that is not empty
SummaryObtained == player_info.kind = "dict" /\ DOMAIN player_info.val # {}

(* C8: if the owned-games fetch returned games, then whatever the
   player-summary fetch returns (a summary, None after the retries are used
   up, None on a response without players) the report is built and a write of
   the file is attempted; the player name and Steam ID lines are in the report
   if and only if a summary was obtained.  A first player that is an empty
   object counts as no summary. *)
C8_ReportDespitePlayerOutcome ==
    (games.kind = "list" /\ Len(games.val) > 0) =>
        /\ pc # "gmr_aborted"
        /\ PlayerReturned =>
            /\ pc \in {"gmr_build", "gmr_write", "gmr_done"}
            /\ pc = "gmr_build" => ENABLED BuildReport
            /\ pc = "gmr_write" => ReportBuilt /\ ENABLED WriteFile
            /\ pc = "gmr_done" => ReportBuilt /\ Opens # {}
            /\ ReportBuilt =>
                /\ HasLine("player_name") <=> SummaryObtained
                /\ HasLine("steam_id") <=> SummaryObtained

\* the write was attempted although get_player_summary returned None after
\* three failed requests
C8_Witness ==
    /\ pc = "gmr_done"
    /\ player_info.kind = "None"
    /\ Cardinality(GetsOf("player")) = 3
    /\ Opens # {}
    /\ ~HasLine("player_name")

(* C9: a run of generate_markdown_report ends without attempting to write the
   report only when the owned-games fetch failed; whenever an owned-games
   request succeeded with a well-formed response, a list of zero games
   included, the run ends by attempting the write. *)
C9_EarlyExitOnlyOnFetchFailure ==
    Finished =>
        ((\E i \in GetsOf("owned") : log[i].tag = "ok") => Opens # {})

(* C10: no exception propagates out of get_owned_games, get_player_summary or
   generate_markdown_report, whatever the HTTP requests and the file write do;
   every failure ends in a console message and a normal return. *)
C10_NoExceptionPropagates ==
    /\ exc = "none"
    /\ pc # "gmr_raised"

----------------------------------------------------------------------------
(* Reading the report *)

\* the positions of the report lines of one kind
LinesOf(tag) == {k \in DOMAIN markdown_content : markdown_content[k][1] = tag}

\* the report line of a kind that occurs once
LineOf(tag) == markdown_content[CHOOSE k \in LinesOf(tag) : TRUE]

\* the appids in the rows of the table of played games
PlayedIds == {markdown_content[k][4] : k \in LinesOf("played_row")}

\* the appids in the rows of the table of unplayed games
UnplayedIds == {markdown_content[k][3] : k \in LinesOf("unplayed_row")}

(* C11: in every report the played and the unplayed games partition the
   fetched list: the two counts and the two tables add up to the number of
   games, every game is in exactly one of the tables, a game is in the
   played table iff its playtime is greater than 0 and in the unplayed one
   iff it is 0, a game without the playtime field counting as 0. *)
C11_PlayedUnplayedPartition ==
    ReportBuilt =>
        LET played == PlayedIds
            unplayed == UnplayedIds
        IN  /\ LineOf("played_count")[2] = Cardinality(played)
            /\ LineOf("unplayed_count")[2] = Cardinality(unplayed)
            /\ Cardinality(LinesOf("played_row")) = Cardinality(played)
            /\ Cardinality(LinesOf("unplayed_row")) = Cardinality(unplayed)
            /\ Cardinality(played) + Cardinality(unplayed) = Len(games.val)
            /\ \A i \in DOMAIN games.val :
                LET g == games.val[i]
                    minutes == IF "playtime_forever" \in DOMAIN g
                               THEN g.playtime_forever ELSE 0
                IN  /\ (g.appid \in played) # (g.appid \in unplayed)
                    /\ g.appid \in played <=> minutes > 0
                    /\ g.appid \in unplayed <=> minutes = 0

\* a report on a played game and a game whose record has no playtime field
C11_Witness ==
    /\ pc = "gmr_done"
    /\ Cardinality(PlayedIds) = 1
    /\ \E i \in DOMAIN games.val :
        /\ "playtime_forever" \notin DOMAIN games.val[i]
        /\ games.val[i].appid \in UnplayedIds

\* the appids of the games in the ranking: an entry shows the name, and the
\* name of the game with appid i is <<"game", i>>
RankedIds == {markdown_content[k][3][2] : k \in LinesOf("rank")}

\* the numbers in front of the ranking entries
RankNumbers == {markdown_content[k][2] : k \in LinesOf("rank")}

\* the playtime of the game with the given appid
PlaytimeOfId(id) ==
    Playtime(games.val[CHOOSE i \in DOMAIN games.val : games.val[i].appid = id])

\* the appids of the games with a playtime greater than 0
PlayedOnes == {games.val[i].appid : i \in {j \in DOMAIN games.val : Playtime(games.val[j]) > 0}}

\* the appids of all the games
AllIds == {games.val[i].appid : i \in DOMAIN games.val}

\* the ranking holds games of the highest playtimes: no game outside it
\* was played longer than a game in it
RankedAreHighest ==
    LET ranked == RankedIds
        others == AllIds \ ranked
    IN  \A id \in ranked : \A other \in others :
            PlaytimeOfId(other) <= PlaytimeOfId(id)

(* C12 as stated: if every game has playtime 0 the report has no ranking
   section; otherwise the ranking has exactly min(10, number of games)
   entries, and they are the games with the highest playtimes. *)
C12_RankingHasMinTenOrAllGames ==
    ReportBuilt =>
        IF PlayedOnes = {}
        THEN ~HasLine("ranking_heading") /\ LinesOf("rank") = {}
        ELSE /\ HasLine("ranking_heading")
             /\ Cardinality(LinesOf("rank")) =
                    (IF Len(games.val) < TopN THEN Len(games.val) ELSE TopN)
             /\ RankedAreHighest

(* C12 amended: if every game has playtime 0 the report has no ranking
   section; otherwise the ranking has exactly min(10, number of games with
   playtime greater than 0) entries, numbered from 1 without a gap; they are
   played games, each listed once, and the games with the highest
   playtimes. *)
C12_RankingHoldsTopPlayedGames ==
    ReportBuilt =>
        LET expected == IF Cardinality(PlayedOnes) < TopN
                        THEN Cardinality(PlayedOnes) ELSE TopN
        IN  /\ HasLine("ranking_heading") <=> PlayedOnes # {}
            /\ Cardinality(LinesOf("rank")) = expected
            /\ Cardinality(RankedIds) = expected
            /\ RankNumbers = 1..expected
            /\ RankedIds \subseteq PlayedOnes
            /\ RankedAreHighest

\* a report on a library of more played games than the ranking holds: the
\* ranking is full and a played game is left out of it
C12_Witness ==
    /\ pc = "gmr_done"
    /\ Cardinality(RankedIds) = TopN
    /\ PlayedOnes \ RankedIds # {}

\* the game with appid a stands before the game with appid b in the stable
\* descending sort of the fetched list: it was played longer, or as long
\* and it was fetched earlier (the record fetched at position i has appid i)
SortsBefore(a, b) ==
    \/ PlaytimeOfId(a) > PlaytimeOfId(b)
    \/ PlaytimeOfId(a) = PlaytimeOfId(b) /\ a < b

\* the appid in the report line at position k, a line of the kind tag: a
\* ranking entry shows the name, a table row the appid
IdAt(tag, k) ==
    CASE tag = "rank" -> markdown_content[k][3][2]
      [] tag = "played_row" -> markdown_content[k][4]
      [] tag = "unplayed_row" -> markdown_content[k][3]

\* the report lines of a kind follow the sort: the lines of a kind are next
\* to each other and SortsBefore is transitive, so each line is compared
\* with the next one
RowsInOrder(tag) ==
    \A k \in LinesOf(tag) :
        (k < Len(markdown_content) /\ markdown_content[k + 1][1] = tag) =>
            SortsBefore(IdAt(tag, k), IdAt(tag, k + 1))

\* the lines of a kind are next to each other in the report
RowsTogether(tag) ==
    Cardinality({k \in LinesOf(tag) : markdown_content[k - 1][1] # tag}) <= 1

(* C13: the order of the games in a report is the stable descending sort of
   the fetched list by playtime: the sorted list holds the fetched games,
   the ranking, the played table and the unplayed table list their games
   by non-increasing playtime, and games of equal playtime keep the order
   in which they were fetched. *)
C13_StableDescendingOrder ==
    ReportBuilt =>
        /\ AllIds = 1..Len(games.val)
        /\ \A i \in 1..(Len(games.val) - 1) :
                SortsBefore(games.val[i].appid, games.val[i + 1].appid)
        /\ \A tag \in {"rank", "played_row", "unplayed_row"} : RowsTogether(tag)
        /\ RowsInOrder("rank")
        /\ RowsInOrder("played_row")
        /\ RowsInOrder("unplayed_row")

\* a report on a library whose only played game was fetched last: it is the
\* first of the sorted list and the ranking, and several unplayed games
\* follow it in the order they were fetched
C13_Witness ==
    /\ pc = "gmr_done"
    /\ Len(games.val) = TopN + 1
    /\ games.val[1].appid = TopN + 1
    /\ RankedIds = {TopN + 1}
    /\ Cardinality(UnplayedIds) = TopN

\* the label "<n> hours" with n written as an integer
HoursLabel(n) == [unit |-> "hours", form |-> "int", shown |-> <<n>>]

\* the label "<m> minutes" with the integer m
MinutesLabel(m) == [unit |-> "minutes", form |-> "int", shown |-> <<m, 1>>]

\* the label "<whole>.<tenth> hours"
DecimalLabel(whole, tenth) ==
    [unit |-> "hours", form |-> "one_decimal", shown |-> <<whole, tenth>>]

(* C14: for every integer m >= 0 minutes_to_hours returns exactly one label:
   "0 hours" for m = 0; the minutes label showing m for 0 < m < 60; the
   integer number of hours m/60 for a positive multiple of 60; and for every
   other m the hours with one decimal, the tenth of an hour nearest to m/60.
   45 gives 45 minutes, 120 gives 2 hours, 90 gives 1.5 hours. *)
C14_MinutesToHoursLabel ==
    pc = "mth_return" =>
        LET m == mth_minutes.num
        IN  /\ m = 0 => mth_label = HoursLabel(0)
            /\ (0 < m /\ m < 60) => mth_label = MinutesLabel(m)
            /\ (m > 0 /\ m % 60 = 0) => mth_label = HoursLabel(m \div 60)
            /\ (m > 60 /\ m % 60 # 0) =>
                \E whole \in 1..m, tenth \in 0..9 :
                    /\ mth_label = DecimalLabel(whole, tenth)
                    /\ 6 * (10 * whole + tenth) - m \in -3..3
            /\ m = 45 => mth_label = MinutesLabel(45)
            /\ m = 120 => mth_label = HoursLabel(2)
            /\ m = 90 => mth_label = DecimalLabel(1, 5)

\* the call returned for an hour and a half
C14_Witness ==
    /\ pc = "mth_return"
    /\ mth_minutes = PyInt(90)
    /\ mth_label.form = "one_decimal"

\* the playtimes of the games with the appids in S, added up
RECURSIVE SumOfPlaytimes(_)
SumOfPlaytimes(S) ==
    IF S = {} THEN 0
    ELSE LET id == CHOOSE x \in S : TRUE
         IN  PlaytimeOfId(id) + SumOfPlaytimes(S \ {id})

\* the library [A: 120, B: 0]
LibraryAB ==
    <<[appid |-> 1, name |-> <<"game", 1>>, playtime_forever |-> 120],
      [appid |-> 2, name |-> <<"game", 2>>, playtime_forever |-> 0]>>

(* C15: the total time a report shows is the sum of the playtimes of all the
   games; the average line is in the report iff at least one game was
   played, and it shows the total divided by the number of played games.
   For [A: 120, B: 0] the total is 120 minutes (2 hours), A is the played
   game, B the unplayed one and the average is 120 minutes (2 hours). *)
C15_TotalAndAverage ==
    ReportBuilt =>
        LET total == SumOfPlaytimes(AllIds)
            played == Cardinality(PlayedOnes)
        IN  /\ LineOf("total_time")[2] = minutes_to_hours(PyInt(total))
            /\ HasLine("average") <=> played > 0
            /\ played > 0 =>
                    LineOf("average")[2] = minutes_to_hours(PyFloat(total, played))
            /\ games.val = LibraryAB =>
                /\ total = 120
                /\ LineOf("total_time")[2] = HoursLabel(2)
                /\ PlayedIds = {1}
                /\ UnplayedIds = {2}
                /\ LineOf("average")[2] = HoursLabel(2)

\* the report on [A: 120, B: 0] was written, with an average line
C15_Witness ==
    /\ pc = "gmr_done"
    /\ games.val = LibraryAB
    /\ HasLine("average")

\* the event at position i is the fixed pause of attempt a of get_player_summary
IsPause(i, a) ==
    /\ i \in DOMAIN log
    /\ log[i] = Slept("player", a, 2, "pause")

\* the event at position i is the wait that follows the failed request of
\* attempt a of get_player_summary: 60*(a+1) seconds after a 429, 30*(a+1)
\* seconds after a request error
IsRetryWait(i, a) ==
    /\ i \in DOMAIN log
    /\ \/ log[i] = Slept("player", a, 60 * (a + 1), "rate_limit")
       \/ log[i] = Slept("player", a, 30 * (a + 1), "backoff")

(* C16: in get_player_summary the event just before the HTTP request of
   the second and of the third attempt is a pause of 2 seconds, and the
   request of the first attempt has no pause before it; the pause comes on
   top of the wait that followed the failed request before (the 429 wait or
   the error backoff), which is over when the attempt is announced and the
   pause starts.  There is no other pause, and none in get_owned_games. *)
C16_PauseBeforeLaterPlayerRequests ==
    /\ \A j \in GetsOf("player") :
        LET a == log[j].at
        IN  IF a = 0
            THEN /\ log[j - 1] = Printed("player", 0, "attempt")
                 /\ ~\E i \in 1..j : log[i].ev = "sleep" /\ log[i].fn = "player"
            ELSE /\ IsPause(j - 1, a)
                 /\ log[j - 2] = Printed("player", a, "attempt")
                 /\ IsRetryWait(j - 3, a - 1)
    /\ \A i \in DOMAIN log :
        (log[i].ev = "sleep" /\ log[i].tag = "pause") =>
            /\ log[i].fn = "player"
            /\ log[i].at \in {1, 2}
            /\ log[i].n = 2
            /\ IF i = Len(log) THEN pc = "ps_get" /\ attempt = log[i].at
               ELSE log[i + 1].ev = "get" /\ log[i + 1].at = log[i].at
    /\ pc = "ps_pause" => attempt \in {1, 2} /\ wait_time = 2
    /\ pc = "ps_get" /\ attempt > 0 => IsPause(Len(log), attempt)

\* get_player_summary made three requests, with a pause before the second
\* and before the third
C16_Witness ==
    /\ pc = "gmr_done"
    /\ Cardinality(GetsOf("player")) = 3
    /\ Cardinality(SleepsOf("player", "pause")) = 2

(* C17: a run attempts the write of the file at most once.  If the attempt
   fails, the failure is reported by a console message and the run ends
   there: no second write, no success message, no request after it, and the
   file does not hold the report. *)
C17_WriteAttemptedOnce ==
    /\ Cardinality(Opens) <= 1
    /\ \A i \in Opens :
        /\ pc = "gmr_done"
        /\ i = Len(log) - 1
        /\ log[i].tag = "ok" => log[i + 1] = Printed("report", 0, "report_done")
        /\ log[i].tag # "ok" =>
            /\ log[i + 1] = Printed("report", 0, "write_error")
            /\ PrintsOf("report", "report_done") = {}
            /\ \A j \in DOMAIN log : log[j].ev = "get" => j < i
            /\ output.state # "written"

\* the file could not be opened: the run is over with the error message as
\* its last event and the file untouched
C17_Witness ==
    /\ pc = "gmr_done"
    /\ \E i \in Opens : log[i].tag = "open_fails"
    /\ log[Len(log)] = Printed("report", 0, "write_error")
    /\ output.state = "untouched"

\* the HTTP requests of the run so far
AllGets == GetsOf("owned") \cup GetsOf("player")

\* the run has left generate_markdown_report by the early return or by the
\* end of the function, after the write attempt
EndedNormally == pc \in {"gmr_aborted", "gmr_done"}

(* C18: when no request, wait or write hangs, every run of
   generate_markdown_report eventually reaches the early exit or the state
   after the write attempt, whatever the outcomes of the requests are, and
   it makes at most 6 HTTP requests on the way. *)
C18_RunEndsAtExitOrAfterWrite ==
    /\ <>EndedNormally
    /\ [](Cardinality(AllGets) <= 6)

\* the position of the latest HTTP request in the log
LatestGet == CHOOSE i \in AllGets : \A k \in AllGets : k <= i

\* the positions at which fetch f stands before its next request
BeforeRequest(f) ==
    IF f = "owned" THEN {"og_loop"} ELSE {"ps_loop", "ps_pause", "ps_get"}

(* C19: a response with an HTTP error status other than 429 (401, 403, 500)
   takes the path of a network error: the request counts as failed with a
   request exception; on attempt a < 2 the fetch does not end, it waits
   30*(a+1) seconds and goes on to attempt a+1; on attempt 2 it returns the
   empty result without a further wait. *)
C19_HttpErrorStatusIsRetried ==
    response = "http_error" =>
        LET i == LatestGet
            f == log[i].fn
            a == log[i].at
        IN  /\ log[i].tag = "request_exception"
            /\ log[i + 1] = Printed(f, a, "request_failed")
            /\ IF a < 2
               THEN /\ ~Returned(f)
                    /\ \/ /\ InBackoffSleep(f)
                          /\ attempt = a
                          /\ wait_time = 30 * (a + 1)
                       \/ /\ pc \in BeforeRequest(f)
                          /\ attempt = a + 1
                          /\ log[i + 3] = Slept(f, a, 30 * (a + 1), "backoff")
               ELSE /\ Returned(f)
                    /\ EmptyResult(f)
                    /\ After(i, f) = {}

\* the second request of get_owned_games was answered with an HTTP error
\* status, the 60 seconds have passed and the third attempt is about to run
C19_Witness ==
    /\ response = "http_error"
    /\ pc = "og_loop"
    /\ attempt = 2
    /\ log[Len(log)] = Slept("owned", 1, 60, "backoff")

\* the seconds of the sleep events at the positions in S, added up
RECURSIVE SecondsOf(_)
SecondsOf(S) ==
    IF S = {} THEN 0
    ELSE LET i == CHOOSE x \in S : TRUE
         IN  log[i].n + SecondsOf(S \ {i})

\* the seconds of the sleep fetch f is in at the moment, 0 if it is in none
SleepingNow(f, whys) ==
    IF f = "owned"
    THEN (IF \/ pc = "og_sleep_429" /\ "rate_limit" \in whys
             \/ pc = "og_sleep_err" /\ "backoff" \in whys
          THEN wait_time ELSE 0)
    ELSE (IF \/ pc = "ps_sleep_429" /\ "rate_limit" \in whys
             \/ pc = "ps_sleep_err" /\ "backoff" \in whys
             \/ pc = "ps_pause" /\ "pause" \in whys
          THEN wait_time ELSE 0)

\* the seconds the call of fetch f has spent, or is about to have spent, in
\* waits of the kinds in whys
Waited(f, whys) ==
    SecondsOf({i \in DOMAIN log :
                  log[i].ev = "sleep" /\ log[i].fn = f /\ log[i].tag \in whys})
        + SleepingNow(f, whys)

\* fetch f ended with a request that was answered as expected
EndedWithSuccess(f) ==
    /\ Returned(f)
    /\ GetsOf(f) # {}
    /\ \E i \in GetsOf(f) : log[i].tag = "ok" /\ \A k \in GetsOf(f) : k <= i

(* C20: one call of get_owned_games spends at most 360 seconds in timed
   waits (60 + 120 + 180) and one call of get_player_summary at most 364
   seconds (360 and two pauses of 2 seconds); a call that ends with a
   successful response has spent at most 180 seconds in the waits that
   follow failed requests. *)
C20_WaitsAreBounded ==
    /\ Waited("owned", {"rate_limit", "backoff", "pause"}) <= 360
    /\ Waited("player", {"rate_limit", "backoff", "pause"}) <= 364
    /\ \A f \in {"owned", "player"} :
        EndedWithSuccess(f) => Waited(f, {"rate_limit", "backoff"}) <= 180

\* get_owned_games succeeded after two 429 answers and 180 seconds of
\* waiting, and get_player_summary waited its 364 seconds
C20_Witness ==
    /\ pc = "gmr_done"
    /\ EndedWithSuccess("owned")
    /\ Waited("owned", {"rate_limit", "backoff"}) = 180
    /\ Waited("player", {"rate_limit", "backoff", "pause"}) = 364

====
